---------------------------- MODULE Spec2Model ----------------------------
(***************************************************************************)
(* Model of samp-chat-tool (src/src/Main.cpp): main, readAppOptions and    *)
(* parseChatJson.  The run is one sequential process; pc is its position.  *)
(* The two input files are part of the initial state, the argument count   *)
(* and the result of each attempt to open a file are drawn when the code   *)
(* reaches them.                                                           *)
(*                                                                         *)
(* JSON values are records [t, s, b, a]: t is the JSON type ("absent" for  *)
(* a key that is not in the enclosing object), s the string value, b the   *)
(* boolean value, a the array elements.  The generated text is a sequence  *)
(* of tokens, one per piece the code appends.                              *)
(***************************************************************************)
EXTENDS Integers, Sequences, FiniteSets, TLC

VARIABLES
    pc,                 \* position of the run in main / parseChatJson
    argc,               \* args.size()
    stdout,             \* messages printed to standard output
    exitStatus,         \* "running", "0" (return from main), "terminate" (uncaught exception)
    thrown,             \* what() of the exception in flight, "" when none
    optsFileContents,   \* the options file as written
    inFileContents,     \* the content file as written
    optsFile,           \* optsFile.is_open()
    inFile,             \* inFile.is_open()
    outFile,            \* outFile.is_open()
    outFileOnDisk,      \* [touched, data]: the output file created/truncated, and what was written
    opts,               \* AppOptions opts
    j,                  \* parseChatJson: the parsed content document
    langs,              \* parseChatJson: LangMap langs
    langPos,            \* parseChatJson: position of the languages loop
    msgPos,             \* parseChatJson: position of the chatMessages loop
    chatContent,        \* parseChatJson: the rendered message blocks
    output              \* the string parseChatJson returns

vars == <<pc, argc, stdout, exitStatus, thrown, optsFileContents, inFileContents,
          optsFile, inFile, outFile, outFileOnDisk, opts, j, langs, langPos,
          msgPos, chatContent, output>>

-----------------------------------------------------------------------------
(* Bounds of the checked input space *)

MaxArgc == 4
MaxHeaders == 2
MaxLangs == 2
MaxMsgs == 2
MaxVariants == 2

-----------------------------------------------------------------------------
(* JSON values *)

JNone == [t |-> "absent", s |-> "", b |-> FALSE, a |-> <<>>]
JStr(x) == [t |-> "string", s |-> x, b |-> FALSE, a |-> <<>>]
JBool(x) == [t |-> "boolean", s |-> "", b |-> x, a |-> <<>>]
JNum == [t |-> "number", s |-> "", b |-> FALSE, a |-> <<>>]
JArr(x) == [t |-> "array", s |-> "", b |-> FALSE, a |-> x]

SeqsUpTo(S, n) == UNION {[1..k -> S] : k \in 0..n}

(* Keys of the universe of language ids, in std::string operator< order. *)
KeyOrder == <<"en", "pl">>
KeyRank(k) == CHOOSE i \in 1..Len(KeyOrder) : KeyOrder[i] = k

(* nlohmann::json stores an object in a std::map<std::string, json>: of the  *)
(* members written in the document it keeps, for each key, the value of the  *)
(* last member with that key, and iterates them in ascending key order.      *)
LastWithKey(members, k) ==
    members[CHOOSE i \in 1..Len(members) :
                /\ members[i].key = k
                /\ \A n \in (i+1)..Len(members) : members[n].key # k]

ParseObject(members) ==
    LET keys == {members[i].key : i \in 1..Len(members)}
        nth(n) == CHOOSE k \in keys :
                      Cardinality({k2 \in keys : KeyRank(k2) < KeyRank(k)}) = n - 1
    IN  [n \in 1..Cardinality(keys) |-> LastWithKey(members, nth(n))]


-----------------------------------------------------------------------------
(* struct AppOptions and readAppOptions *)

DefaultOptions ==
    [pch |-> "", ns |-> "", languageEnum |-> "", headerFiles |-> <<>>,
     chatMessageType |-> "constexpr auto",
     useCompileMacro |-> TRUE, usePragmaOnce |-> TRUE]

(* An options file: unparsable text, a JSON value that is no object, or an  *)
(* object with some of the recognized keys.                                 *)
OptionsObject(ucm, upo, le, pch, ns, cmt, hf) ==
    [root |-> "object", useCompileMacro |-> ucm, usePragmaOnce |-> upo,
     languageEnum |-> le, pch |-> pch, namespace |-> ns,
     chatMessageType |-> cmt, headerFiles |-> hf]

EmptyOptionsObject == OptionsObject(JNone, JNone, JNone, JNone, JNone, JNone, JNone)

(* Variant of ReadOption that leaves the default in place of a value of the  *)
(* wrong type instead of throwing.                                           *)
ReadOption_SkipMistyped(r, doc, cppName, jsonName, jsonType) ==
    IF r.thrown # "" THEN r
    ELSE IF doc[jsonName].t # jsonType THEN r
    ELSE [r EXCEPT !.opts[cppName] =
              IF jsonType = "boolean" THEN doc[jsonName].b ELSE doc[jsonName].s]

ReadOptionValue(val, jsonType) == IF jsonType = "boolean" THEN val.b ELSE val.s

(* READ_OPTION(CppName, CppType, JsonName, JsonType), applied to the state  *)
(* r = [opts, thrown] left by the statements before it.                     *)
ReadOption(r, doc, cppName, jsonName, jsonType) ==
    IF r.thrown # "" THEN r
    ELSE IF doc[jsonName].t = "absent" THEN r
    ELSE IF doc[jsonName].t # jsonType
         THEN [r EXCEPT !.thrown = "TypeMismatch:" \o jsonName]
         ELSE [r EXCEPT !.opts[cppName] = ReadOptionValue(doc[jsonName], jsonType)]

StringElements(a) ==
    LET strs == SelectSeq(a, LAMBDA v : v.t = "string")
    IN  [i \in 1..Len(strs) |-> strs[i].s]

ReadHeaderFiles(r, doc) ==
    IF r.thrown # "" THEN r
    ELSE IF doc.headerFiles.t = "absent" THEN r
    ELSE IF doc.headerFiles.t # "array"
         THEN [r EXCEPT !.thrown = "TypeMismatch:headerFiles"]
         ELSE [r EXCEPT !.opts.headerFiles = @ \o StringElements(doc.headerFiles.a)]

readAppOptions(o, doc) ==
    IF doc.root = "invalid" THEN [opts |-> o, thrown |-> "json::parse_error"]
    ELSE IF doc.root # "object" THEN [opts |-> o, thrown |-> "MalformedDocument:options"]
    ELSE LET r0 == [opts |-> o, thrown |-> ""]
             r1 == ReadOption(r0, doc, "useCompileMacro", "useCompileMacro", "boolean")
             r2 == ReadOption(r1, doc, "usePragmaOnce", "usePragmaOnce", "boolean")
             r3 == ReadOption(r2, doc, "languageEnum", "languageEnum", "string")
             r4 == ReadOption(r3, doc, "pch", "pch", "string")
             r5 == ReadOption(r4, doc, "ns", "namespace", "string")
             r6 == ReadOption(r5, doc, "chatMessageType", "chatMessageType", "string")
         IN  ReadHeaderFiles(r6, doc)

-----------------------------------------------------------------------------
(* The content document *)

(* One element of "languages". *)
LangObject(id, name) == [t |-> "object", id |-> id, name |-> name]
LangNonObject == [t |-> "string", id |-> "", name |-> ""]

(* One member of a message's "content" object, as written: its key and its  *)
(* value, an object {comment, processed} or a value that is no object.      *)
Variant(key, comment, processed) ==
    [key |-> key, t |-> "object", comment |-> comment, processed |-> processed]
NonObjectVariant(key) ==
    [key |-> key, t |-> "string", comment |-> "", processed |-> ""]

ContentObject(members) == [t |-> "object", members |-> members]
ContentNull == [t |-> "null", members |-> <<>>]
ContentAbsent == [t |-> "absent", members |-> <<>>]

(* One element of "chatMessages". *)
MsgObject(uniqueName, content) ==
    [t |-> "object", uniqueName |-> uniqueName, content |-> content]
MsgNonObject == [t |-> "string", uniqueName |-> JNone, content |-> ContentAbsent]

ContentDocument(languages, chatMessages) ==
    [root |-> "object", languages |-> languages, chatMessages |-> chatMessages]
InvalidDocument == [root |-> "invalid", languages |-> JNone, chatMessages |-> JNone]
NonObjectDocument == [root |-> "array", languages |-> JNone, chatMessages |-> JNone]

(* json::parse of the content file: every "content" object becomes the      *)
(* std::map the library keeps.                                              *)
ParseMessage(m) ==
    IF m.content.t = "object"
    THEN [m EXCEPT !.content.members = ParseObject(@)]
    ELSE m

ParseDocument(doc) ==
    IF doc.chatMessages.t = "array"
    THEN [doc EXCEPT !.chatMessages.a =
              [i \in 1..Len(@) |-> ParseMessage(@[i])]]
    ELSE doc

-----------------------------------------------------------------------------
(* parseChatJson: the language table *)

EmptyLangMap == [k \in {} |-> ""]

(* Variant of LangsAssign with std::map::insert semantics: the first name  *)
(* stored for an id stays.                                                   *)
LangsAssign_FirstWins(lm, id, name) ==
    [k \in (DOMAIN lm) \cup {id} |-> IF k \in DOMAIN lm THEN lm[k] ELSE name]

(* langs[id] = name *)
LangsAssign(lm, id, name) ==
    [k \in (DOMAIN lm) \cup {id} |-> IF k = id THEN name ELSE lm[k]]

(* langs[langId] read as an rvalue: std::map::operator[] inserts a          *)
(* value-initialised entry for a key that is not in the map.                *)
LangsSubscript(lm, langId) ==
    IF langId \in DOMAIN lm
    THEN [map |-> lm, value |-> lm[langId]]
    ELSE [map |-> LangsAssign(lm, langId, ""), value |-> ""]

-----------------------------------------------------------------------------
(* parseChatJson: rendering one element of chatMessages *)

Quote == "\""

(* Variant of IsChatMessage that does not test for "content". *)
IsChatMessage_UniqueNameOnly(value) ==
    /\ value.t = "object"
    /\ value.uniqueName.t # "absent"

(* Lines 148-152: the elements that are rendered. *)
IsChatMessage(value) ==
    /\ value.t = "object"
    /\ value.uniqueName.t # "absent"
    /\ value.content.t # "absent"

(* Lines 162-163. *)
NeedsComment(comment) == comment = ""

(* Variant of PositionIndex that counts from one. *)
PositionIndex_OneBased(langIndex) ==
    [kind |-> "position", n |-> langIndex + 1, enum |-> "", member |-> ""]

(* Lines 166-169: what goes between "result[" and "] = ". *)
PositionIndex(langIndex) ==
    [kind |-> "position", n |-> langIndex, enum |-> "", member |-> ""]

EnumIndex(enum, member) ==
    [kind |-> "enum", n |-> 0, enum |-> enum, member |-> member]

(* Variant of Literal that ignores useCompileMacro. *)
Literal_NeverWrapped(o, processed) == <<Quote, processed, Quote>>

(* Lines 173-181: the literal and its optional FMT_COMPILE wrapping. *)
Literal(o, processed) ==
    (IF o.useCompileMacro THEN <<"FMT_COMPILE(">> ELSE <<>>)
    \o <<Quote, processed, Quote>>
    \o (IF o.useCompileMacro THEN <<")">> ELSE <<>>)

(* One iteration of the loop over value["content"].items() (lines 159-185), *)
(* on the loop state acc = [comment, langContent, langIndex, langs, thrown].*)
RenderVariant(acc, o, msgContent) ==
    IF acc.thrown # "" THEN acc
    ELSE IF NeedsComment(acc.comment) /\ msgContent.t # "object"
    THEN [acc EXCEPT !.thrown = "json::type_error"]
    ELSE LET comment == IF NeedsComment(acc.comment) THEN msgContent.comment
                        ELSE acc.comment
             sub == LangsSubscript(acc.langs, msgContent.key)
             lm == IF o.languageEnum = "" THEN acc.langs ELSE sub.map
             index == IF o.languageEnum = "" THEN PositionIndex(acc.langIndex)
                      ELSE EnumIndex(o.languageEnum, sub.value)
         IN  IF msgContent.t # "object"
             THEN [acc EXCEPT !.comment = comment, !.langs = lm,
                              !.thrown = "json::type_error"]
             ELSE [comment |-> comment,
                   langContent |-> Append(acc.langContent,
                       [index |-> index,
                        literal |-> Literal(o, msgContent.processed)]),
                   langIndex |-> acc.langIndex + 1,
                   langs |-> lm,
                   thrown |-> ""]

RenderVariants(o, lm, items) ==
    LET f[k \in 0..Len(items)] ==
            IF k = 0
            THEN [comment |-> "", langContent |-> <<>>, langIndex |-> 0,
                  langs |-> lm, thrown |-> ""]
            ELSE RenderVariant(f[k-1], o, items[k])
    IN  f[Len(items)]

(* Variant of Block that never declares an array of size zero. *)
Block_MinSizeOne(comment, langIndex, langContent, uniqueName) ==
    [comment |-> comment, size |-> IF langIndex = 0 THEN 1 ELSE langIndex,
     lines |-> langContent, name |-> uniqueName]

(* The fmt::format_to call (lines 187-206). *)
Block(comment, langIndex, langContent, uniqueName) ==
    [comment |-> comment, size |-> langIndex, lines |-> langContent,
     name |-> uniqueName]

NoBlock == Block("", 0, <<>>, "")

(* The body of the loop over chatMessages (lines 146-208). *)
RenderMessage(o, lm, value) ==
    IF ~IsChatMessage(value)
    THEN [skipped |-> TRUE, thrown |-> "", langs |-> lm, block |-> NoBlock]
    ELSE IF value.uniqueName.t # "string"
    THEN [skipped |-> FALSE, thrown |-> "json::type_error", langs |-> lm,
          block |-> NoBlock]
    ELSE LET r == RenderVariants(o, lm, value.content.members)
         IN  [skipped |-> FALSE, thrown |-> r.thrown, langs |-> r.langs,
              block |-> IF r.thrown # "" THEN NoBlock
                        ELSE Block(r.comment, r.langIndex, r.langContent,
                                   value.uniqueName.s)]

-----------------------------------------------------------------------------
(* parseChatJson: assembling the output (lines 212-252) *)

Token(kind, text) == [kind |-> kind, text |-> text, block |-> NoBlock]
BlockToken(b) == [kind |-> "block", text |-> "", block |-> b]

(* Variant of Assemble that declares ChatMessageBase before the namespace   *)
(* is opened.                                                                *)
Assemble_BaseFirst(o, content) ==
    (IF o.usePragmaOnce THEN <<Token("pragma once", "")>> ELSE <<>>)
    \o (IF o.pch # "" THEN <<Token("include", o.pch)>> ELSE <<>>)
    \o [i \in 1..Len(o.headerFiles) |-> Token("include", o.headerFiles[i])]
    \o <<Token("blank lines", "")>>
    \o <<Token("ChatMessageBase", "")>>
    \o (IF o.ns # "" THEN <<Token("namespace open", o.ns)>> ELSE <<>>)
    \o [i \in 1..Len(content) |-> BlockToken(content[i])]
    \o (IF o.ns # "" THEN <<Token("namespace close", "")>> ELSE <<>>)

Assemble(o, content) ==
    (IF o.usePragmaOnce THEN <<Token("pragma once", "")>> ELSE <<>>)
    \o (IF o.pch # "" THEN <<Token("include", o.pch)>> ELSE <<>>)
    \o [i \in 1..Len(o.headerFiles) |-> Token("include", o.headerFiles[i])]
    \o <<Token("blank lines", "")>>
    \o (IF o.ns # "" THEN <<Token("namespace open", o.ns)>> ELSE <<>>)
    \o <<Token("ChatMessageBase", "")>>
    \o [i \in 1..Len(content) |-> BlockToken(content[i])]
    \o (IF o.ns # "" THEN <<Token("namespace close", "")>> ELSE <<>>)

-----------------------------------------------------------------------------
(* The checked input space *)

ProcessedText(key) == IF key = "en" THEN "Hi" ELSE "Czesc"

CommentsOf(key) == IF key = "en" THEN {"", "a"} ELSE {"", "b"}

VariantMembers ==
    UNION {{Variant(k, c, ProcessedText(k)) : c \in CommentsOf(k)} : k \in {"en", "pl"}}
    \cup {NonObjectVariant("pl")}

(* The elements of chatMessages that are varied in full ... *)
MsgEntries ==
    {MsgObject(JStr("Greeting"), ContentObject(m)) :
        m \in SeqsUpTo(VariantMembers, MaxVariants)}
    \cup {MsgObject(JStr("Greeting"), ContentNull),
          MsgObject(JStr("Greeting"), ContentAbsent),
          MsgObject(JNone, ContentObject(<<>>)),
          MsgObject(JNum, ContentObject(<<>>)),
          MsgNonObject}

(* ... and the elements that surround them. *)
OtherEntries ==
    {MsgNonObject,
     MsgObject(JStr("Bye"), ContentObject(<<Variant("en", "c", "Bye")>>))}

MsgArrays ==
    {<<>>} \cup
    {pre \o <<m>> \o suf :
        m \in MsgEntries,
        pre \in SeqsUpTo(OtherEntries, MaxMsgs - 1),
        suf \in SeqsUpTo(OtherEntries, MaxMsgs - 1)} 

BoundedMsgArrays == {a \in MsgArrays : Len(a) <= MaxMsgs}

SampleMsgArrays ==
    {<<>>,
     <<MsgObject(JStr("Greeting"),
                 ContentObject(<<Variant("pl", "a", "Czesc"),
                                 Variant("en", "b", "Hi")>>)),
       MsgNonObject,
       MsgObject(JStr("Bye"), ContentObject(<<Variant("en", "c", "Bye")>>))>>}

LangEntries ==
    {LangObject("en", "English"), LangObject("en", "Angielski"),
     LangObject("pl", "Polish"), LangNonObject}

LangArrays == SeqsUpTo(LangEntries, MaxLangs)

SampleLangArrays ==
    {<<>>, <<LangObject("en", "English"), LangObject("pl", "Polish")>>}

(* Content files: the language table varied against the sample messages,    *)
(* and the messages varied against the sample language tables.              *)
ContentDocs ==
    {InvalidDocument, NonObjectDocument}
    \cup {ContentDocument(l, JArr(m)) :
            l \in {JNone, JNum} \cup {JArr(x) : x \in LangArrays},
            m \in SampleMsgArrays}
    \cup {ContentDocument(JArr(l), m) :
            l \in SampleLangArrays,
            m \in {JNone, JNum} \cup {JArr(x) : x \in BoundedMsgArrays}}

SampleContentDocs ==
    {InvalidDocument}
    \cup {ContentDocument(JArr(l), JArr(m)) :
            l \in SampleLangArrays, m \in SampleMsgArrays}

HeaderArrays ==
    {JArr(a) : a \in SeqsUpTo({JStr("a.h"), JStr("b.h"), JNum}, MaxHeaders)}

WellTypedOptions ==
    {OptionsObject(ucm, upo, le, pch, ns, cmt, hf) :
        ucm \in {JNone, JBool(TRUE), JBool(FALSE)},
        upo \in {JNone, JBool(TRUE), JBool(FALSE)},
        le \in {JNone, JStr("Lang")},
        pch \in {JNone, JStr("PCH")},
        ns \in {JNone, JStr("chat_txt")},
        cmt \in {JNone, JStr("T")},
        hf \in {JNone} \cup HeaderArrays}

FullOptionsObject ==
    OptionsObject(JBool(FALSE), JBool(FALSE), JStr("Lang"), JStr("PCH"),
                  JStr("chat_txt"), JStr("T"), JArr(<<JStr("a.h")>>))

(* One recognized key with a value of the wrong JSON type. *)
MistypedOptions ==
    {[base EXCEPT ![f] = IF f \in {"useCompileMacro", "usePragmaOnce", "headerFiles"}
                         THEN JStr("yes") ELSE JNum] :
        base \in {EmptyOptionsObject, FullOptionsObject},
        f \in {"useCompileMacro", "usePragmaOnce", "languageEnum", "pch",
               "namespace", "chatMessageType", "headerFiles"}}

OptionsDocs ==
    WellTypedOptions \cup MistypedOptions
    \cup {[EmptyOptionsObject EXCEPT !.root = "invalid"],
          [EmptyOptionsObject EXCEPT !.root = "array"]}

RenderOptionsDocs ==
    {OptionsObject(ucm, JNone, le, JNone, JNone, JNone, JNone) :
        ucm \in {JNone, JBool(TRUE), JBool(FALSE)},
        le \in {JNone, JStr("Lang")}}

-----------------------------------------------------------------------------
(* main *)

Unparsed == [root |-> "unparsed", languages |-> JNone, chatMessages |-> JNone]

InitRun ==
    /\ pc = "main"
    /\ argc = 0
    /\ stdout = <<>>
    /\ exitStatus = "running"
    /\ thrown = ""
    /\ optsFile = FALSE
    /\ inFile = FALSE
    /\ outFile = FALSE
    /\ outFileOnDisk = [touched |-> FALSE, data |-> <<>>]
    /\ opts = DefaultOptions
    /\ j = Unparsed
    /\ langs = EmptyLangMap
    /\ langPos = 0
    /\ msgPos = 0
    /\ chatContent = <<>>
    /\ output = <<>>

(* Options files varied in full against sample content files. *)
Init ==
    /\ optsFileContents \in OptionsDocs
    /\ inFileContents \in SampleContentDocs
    /\ InitRun

(* Content files varied in full against the options that rendering reads. *)
InitRender ==
    /\ optsFileContents \in RenderOptionsDocs
    /\ inFileContents \in ContentDocs
    /\ InitRun

(* Variant of PrintAndReturn that reports the failure in the exit status. *)
PrintAndReturn_Status1(msg) ==
    /\ stdout' = Append(stdout, msg)
    /\ exitStatus' = "1"
    /\ pc' = "returned"

(* return 0 from main after printing msg (lines 75-76, 82-83, 89-90, 96-97) *)
PrintAndReturn(msg) ==
    /\ stdout' = Append(stdout, msg)
    /\ exitStatus' = "0"
    /\ pc' = "returned"

(* An exception leaves main: std::terminate. *)
Throw(what) ==
    /\ thrown' = what
    /\ exitStatus' = "terminate"
    /\ pc' = "terminated"

(* Lines 71-77. *)
CheckArgs ==
    /\ pc = "main"
    /\ \E n \in 1..MaxArgc :
        /\ argc' = n
        /\ IF n < 4
           THEN PrintAndReturn("Usage")
           ELSE /\ pc' = "openOptsFile"
                /\ UNCHANGED <<stdout, exitStatus>>
    /\ UNCHANGED <<thrown, optsFileContents, inFileContents, optsFile, inFile,
                   outFile, outFileOnDisk, opts, j, langs, langPos, msgPos,
                   chatContent, output>>

(* Lines 79-84. *)
OpenOptsFile ==
    /\ pc = "openOptsFile"
    /\ \E ok \in BOOLEAN :
        /\ optsFile' = ok
        /\ IF ~ok
           THEN PrintAndReturn("Error: options file")
           ELSE /\ pc' = "openInFile"
                /\ UNCHANGED <<stdout, exitStatus>>
    /\ UNCHANGED <<argc, thrown, optsFileContents, inFileContents, inFile,
                   outFile, outFileOnDisk, opts, j, langs, langPos, msgPos,
                   chatContent, output>>

(* Lines 86-91. *)
OpenInFile ==
    /\ pc = "openInFile"
    /\ \E ok \in BOOLEAN :
        /\ inFile' = ok
        /\ IF ~ok
           THEN PrintAndReturn("Error: input file")
           ELSE /\ pc' = "openOutFile"
                /\ UNCHANGED <<stdout, exitStatus>>
    /\ UNCHANGED <<argc, thrown, optsFileContents, inFileContents, optsFile,
                   outFile, outFileOnDisk, opts, j, langs, langPos, msgPos,
                   chatContent, output>>

(* Lines 93-98: std::ofstream creates or truncates the file it opens. *)
OpenOutFile ==
    /\ pc = "openOutFile"
    /\ \E ok \in BOOLEAN :
        /\ outFile' = ok
        /\ IF ~ok
           THEN /\ PrintAndReturn("Error: output file")
                /\ UNCHANGED outFileOnDisk
           ELSE /\ outFileOnDisk' = [touched |-> TRUE, data |-> <<>>]
                /\ pc' = "readAppOptions"
                /\ UNCHANGED <<stdout, exitStatus>>
    /\ UNCHANGED <<argc, thrown, optsFileContents, inFileContents, optsFile,
                   inFile, opts, j, langs, langPos, msgPos, chatContent, output>>

(* Lines 100-101. *)
ReadAppOptions ==
    /\ pc = "readAppOptions"
    /\ LET r == readAppOptions(DefaultOptions, optsFileContents)
       IN  /\ opts' = r.opts
           /\ IF r.thrown # ""
              THEN Throw(r.thrown)
              ELSE /\ pc' = "parseChatJson"
                   /\ UNCHANGED <<thrown, exitStatus>>
    /\ UNCHANGED <<argc, stdout, optsFileContents, inFileContents, optsFile,
                   inFile, outFile, outFileOnDisk, j, langs, langPos, msgPos,
                   chatContent, output>>

-----------------------------------------------------------------------------
(* parseChatJson, called from line 103 *)

(* Lines 110-118. *)
ParseContent ==
    /\ pc = "parseChatJson"
    /\ IF inFileContents.root = "invalid"
       THEN Throw("json::parse_error") /\ UNCHANGED j
       ELSE IF inFileContents.root # "object"
       THEN Throw("MalformedDocument:root") /\ UNCHANGED j
       ELSE /\ j' = ParseDocument(inFileContents)
            /\ pc' = "findLanguages"
            /\ UNCHANGED <<thrown, exitStatus>>
    /\ UNCHANGED <<argc, stdout, optsFileContents, inFileContents, optsFile,
                   inFile, outFile, outFileOnDisk, opts, langs, langPos, msgPos,
                   chatContent, output>>

(* Lines 120-126. *)
FindLanguages ==
    /\ pc = "findLanguages"
    /\ langs' = EmptyLangMap
    /\ IF j.languages.t # "array"
       THEN Throw("MalformedDocument:languages") /\ UNCHANGED langPos
       ELSE /\ langPos' = 1
            /\ pc' = "languages"
            /\ UNCHANGED <<thrown, exitStatus>>
    /\ UNCHANGED <<argc, stdout, optsFileContents, inFileContents, optsFile,
                   inFile, outFile, outFileOnDisk, opts, j, msgPos, chatContent,
                   output>>

(* Lines 128-137: one element of "languages". *)
ReadLanguage ==
    /\ pc = "languages"
    /\ langPos <= Len(j.languages.a)
    /\ LET val == j.languages.a[langPos]
       IN  IF val.t # "object"
           THEN Throw("MalformedDocument:language") /\ UNCHANGED <<langs, langPos>>
           ELSE /\ langs' = LangsAssign(langs, val.id, val.name)
                /\ langPos' = langPos + 1
                /\ UNCHANGED <<pc, thrown, exitStatus>>
    /\ UNCHANGED <<argc, stdout, optsFileContents, inFileContents, optsFile,
                   inFile, outFile, outFileOnDisk, opts, j, msgPos, chatContent,
                   output>>

(* Lines 142-144, reached when the loop over "languages" ends. *)
FindChatMessages ==
    /\ pc = "languages"
    /\ langPos > Len(j.languages.a)
    /\ IF j.chatMessages.t # "array"
       THEN Throw("MalformedDocument:chatMessages") /\ UNCHANGED msgPos
       ELSE /\ msgPos' = 1
            /\ pc' = "chatMessages"
            /\ UNCHANGED <<thrown, exitStatus>>
    /\ UNCHANGED <<argc, stdout, optsFileContents, inFileContents, optsFile,
                   inFile, outFile, outFileOnDisk, opts, j, langs, langPos,
                   chatContent, output>>

(* Lines 146-208: one element of "chatMessages". *)
RenderChatMessage ==
    /\ pc = "chatMessages"
    /\ msgPos <= Len(j.chatMessages.a)
    /\ LET r == RenderMessage(opts, langs, j.chatMessages.a[msgPos])
       IN  /\ langs' = r.langs
           /\ IF r.thrown # ""
              THEN Throw(r.thrown) /\ UNCHANGED <<msgPos, chatContent>>
              ELSE /\ chatContent' = IF r.skipped THEN chatContent
                                     ELSE Append(chatContent, r.block)
                   /\ msgPos' = msgPos + 1
                   /\ UNCHANGED <<pc, thrown, exitStatus>>
    /\ UNCHANGED <<argc, stdout, optsFileContents, inFileContents, optsFile,
                   inFile, outFile, outFileOnDisk, opts, j, langPos, output>>

(* Lines 212-252, reached when the loop over "chatMessages" ends. *)
AssembleOutput ==
    /\ pc = "chatMessages"
    /\ msgPos > Len(j.chatMessages.a)
    /\ output' = Assemble(opts, chatContent)
    /\ pc' = "write"
    /\ UNCHANGED <<argc, stdout, exitStatus, thrown, optsFileContents,
                   inFileContents, optsFile, inFile, outFile, outFileOnDisk,
                   opts, j, langs, langPos, msgPos, chatContent>>

(* Line 103: outFile << (the returned string); main returns. *)
WriteOutput ==
    /\ pc = "write"
    /\ outFileOnDisk' = [outFileOnDisk EXCEPT !.data = @ \o output]
    /\ exitStatus' = "0"
    /\ pc' = "returned"
    /\ UNCHANGED <<argc, stdout, thrown, optsFileContents, inFileContents,
                   optsFile, inFile, outFile, opts, j, langs, langPos, msgPos,
                   chatContent, output>>

Next ==
    \/ CheckArgs
    \/ OpenOptsFile
    \/ OpenInFile
    \/ OpenOutFile
    \/ ReadAppOptions
    \/ ParseContent
    \/ FindLanguages
    \/ ReadLanguage
    \/ FindChatMessages
    \/ RenderChatMessage
    \/ AssembleOutput
    \/ WriteOutput

Spec == Init /\ [][Next]_vars

SpecRender == InitRender /\ [][Next]_vars

-----------------------------------------------------------------------------
(* Vocabulary of the properties, in terms of the files as written *)

Entries == inFileContents.chatMessages.a

(* An element of chatMessages that is an object with both keys. *)
HasBothKeys(e) ==
    e.t = "object" /\ e.uniqueName.t # "absent" /\ e.content.t # "absent"

(* parseChatJson has returned its string. *)
ParseReturned == pc = "write" \/ (pc = "returned" /\ j.root = "object")

(* The element at msgPos - 1 has just been rendered into the last block. *)
JustRendered ==
    /\ pc = "chatMessages"
    /\ msgPos > 1
    /\ HasBothKeys(Entries[msgPos - 1])

LastEntry == Entries[msgPos - 1]
LastBlock == chatContent[Len(chatContent)]
WrittenMembers == LastEntry.content.members
WrittenKeys == {WrittenMembers[i].key : i \in 1..Len(WrittenMembers)}

BlocksOf(tokens) == SelectSeq(tokens, LAMBDA tk : tk.kind = "block")

\* C1: when parseChatJson returns, the output holds one block per element of
\* chatMessages that is an object with both uniqueName and content, in the
\* array's order, and none for any other element; while the array is walked,
\* the blocks rendered so far are those of the elements already passed.
C1_OneBlockPerMessage ==
    /\ ParseReturned =>
         LET q == SelectSeq(Entries, HasBothKeys)
             blocks == BlocksOf(output)
         IN  /\ Len(blocks) = Len(q)
             /\ \A i \in 1..Len(blocks) : blocks[i].block.name = q[i].uniqueName.s
    /\ pc = "chatMessages" =>
         LET q == SelectSeq(SubSeq(Entries, 1, msgPos - 1), HasBothKeys)
         IN  /\ Len(chatContent) = Len(q)
             /\ \A i \in 1..Len(q) : chatContent[i].name = q[i].uniqueName.s

C1_Witness ==
    /\ ParseReturned
    /\ Len(BlocksOf(output)) = 1
    /\ Len(Entries) = 2
    /\ \E i \in 1..Len(Entries) : ~HasBothKeys(Entries[i])

\* C2 as stated: with languageEnum empty, the k-th variant of content as
\* written in the document is assigned index k-1, and there are as many
\* assignment lines as variants written.
C2_DocumentOrder ==
    (JustRendered /\ opts.languageEnum = "") =>
        /\ Len(chatContent) > 0
        /\ Len(LastBlock.lines) = Len(WrittenMembers)
        /\ \A k \in 1..Len(WrittenMembers) :
            /\ LastBlock.lines[k].index.kind = "position"
            /\ LastBlock.lines[k].index.n = k - 1
            /\ LastBlock.lines[k].literal =
                   Literal(opts, WrittenMembers[k].processed)

(* The last member written with key k. *)
LastWritten(k) ==
    CHOOSE i \in 1..Len(WrittenMembers) :
        /\ WrittenMembers[i].key = k
        /\ \A n \in (i+1)..Len(WrittenMembers) : WrittenMembers[n].key # k

SmallerKeys(k) == {k2 \in WrittenKeys : KeyRank(k2) < KeyRank(k)}

\* C2 amended: with languageEnum empty and N distinct language ids in content,
\* the indices are exactly 0..N-1, each used once, assigned in ascending order
\* of language id; an id written more than once is rendered once, from its
\* last occurrence.
C2_KeyOrder ==
    (JustRendered /\ opts.languageEnum = "") =>
        /\ Len(chatContent) > 0
        /\ Len(LastBlock.lines) = Cardinality(WrittenKeys)
        /\ \A k \in 1..Len(LastBlock.lines) :
            /\ LastBlock.lines[k].index.kind = "position"
            /\ LastBlock.lines[k].index.n = k - 1
        /\ \A key \in WrittenKeys :
            LastBlock.lines[Cardinality(SmallerKeys(key)) + 1].literal[
                IF opts.useCompileMacro THEN 3 ELSE 2] =
            WrittenMembers[LastWritten(key)].processed

C2_Witness ==
    /\ JustRendered
    /\ opts.languageEnum = ""
    /\ Len(WrittenMembers) = 2
    /\ WrittenMembers[1].key = "pl"
    /\ WrittenMembers[2].key = "en"
    /\ Len(LastBlock.lines) = 2

\* C3: the emitted comment is the comment of the first variant of content in
\* document order, whatever the later variants' comments are, also when the
\* first comment is empty and a later one is not.
C3_FirstVariantComment ==
    (JustRendered /\ Len(WrittenMembers) > 0) =>
        /\ Len(chatContent) > 0
        /\ LastBlock.comment = WrittenMembers[1].comment

\* C4: under any options, the declared array size of a rendered block equals
\* the number of its assignment lines, which equals the number of variants of
\* the message (0 for an empty or null content).
C4_SizeIsVariantCount ==
    /\ \A i \in 1..Len(chatContent) :
           chatContent[i].size = Len(chatContent[i].lines)
    /\ JustRendered =>
        /\ Len(chatContent) > 0
        /\ LastBlock.size = Cardinality(WrittenKeys)
        /\ Len(LastBlock.lines) = Cardinality(WrittenKeys)

C4_Witness ==
    /\ JustRendered
    /\ Len(WrittenMembers) = 0
    /\ LastBlock.size = 0
    /\ LastBlock.lines = <<>>
    /\ thrown = ""

(* useCompileMacro as the options file sets it: true when the key is absent. *)
MacroRequested ==
    optsFileContents.useCompileMacro.t = "absent" \/ optsFileContents.useCompileMacro.b

\* C7: when useCompileMacro is false no literal of any block carries the
\* FMT_COMPILE( marker; when it is true or absent every literal is
\* FMT_COMPILE( quote text quote ).
C7_MacroWrapping ==
    \A i \in 1..Len(chatContent) : \A k \in 1..Len(chatContent[i].lines) :
        LET lit == chatContent[i].lines[k].literal
        IN  IF MacroRequested
            THEN /\ Len(lit) = 5
                 /\ lit[1] = "FMT_COMPILE("
                 /\ lit[2] = Quote
                 /\ lit[4] = Quote
                 /\ lit[5] = ")"
            ELSE /\ Len(lit) = 3
                 /\ lit[1] = Quote
                 /\ lit[3] = Quote
                 /\ \A n \in 1..Len(lit) : lit[n] # "FMT_COMPILE("

C7_Witness ==
    /\ optsFileContents.useCompileMacro.t = "absent"
    /\ ParseReturned
    /\ \E i \in 1..Len(chatContent) :
        /\ Len(chatContent[i].lines) = 2
        /\ chatContent[i].lines[2].literal[1] = "FMT_COMPILE("
        /\ chatContent[i].lines[2].literal[5] = ")"

(* The ids of the first n elements of "languages". *)
LangIds(n) == {inFileContents.languages.a[i].id : i \in 1..n}

LastLang(n, id) ==
    inFileContents.languages.a[
        CHOOSE i \in 1..n :
            /\ inFileContents.languages.a[i].id = id
            /\ \A m \in (i+1)..n : inFileContents.languages.a[m].id # id]

\* C9: while and after "languages" is read, the table holds exactly one entry
\* per distinct id read so far, mapped to the name of the last element read
\* with that id.
C9_LastNameWins ==
    pc = "languages" =>
        /\ DOMAIN langs = LangIds(langPos - 1)
        /\ \A id \in LangIds(langPos - 1) :
               langs[id] = LastLang(langPos - 1, id).name

C9_Witness ==
    /\ pc = "languages"
    /\ langPos = 3
    /\ inFileContents.languages.a[1] = LangObject("en", "English")
    /\ inFileContents.languages.a[2] = LangObject("en", "Angielski")
    /\ langs["en"] = "Angielski"
    /\ Cardinality(DOMAIN langs) = 1

\* C10: once "languages" has been read, no step of parseChatJson changes the
\* language table or the options.
C10_TableReadOnly ==
    [][pc = "chatMessages" => (langs' = langs /\ opts' = opts)]_vars

-----------------------------------------------------------------------------
(* Properties of main *)

RecognizedKeys ==
    {"useCompileMacro", "usePragmaOnce", "languageEnum", "pch", "namespace",
     "chatMessageType", "headerFiles"}

ExpectedType(key) ==
    IF key \in {"useCompileMacro", "usePragmaOnce"} THEN "boolean"
    ELSE IF key = "headerFiles" THEN "array" ELSE "string"

(* The options file is an object in which a recognized key has a value of   *)
(* the wrong JSON type.                                                      *)
MistypedField ==
    /\ optsFileContents.root = "object"
    /\ \E key \in RecognizedKeys :
           optsFileContents[key].t \notin {"absent", ExpectedType(key)}

BeforeReadAppOptions ==
    pc \in {"main", "openOptsFile", "openInFile", "openOutFile", "readAppOptions"}

\* C5: a recognized options key with a value of the wrong JSON type makes
\* readAppOptions throw a type mismatch, which ends the run; and on no run in
\* which readAppOptions or parseChatJson throws is anything written to the
\* output file.
C5_NoOutputOnThrow ==
    /\ thrown # "" => (pc = "terminated" /\ outFileOnDisk.data = <<>>)
    /\ MistypedField => outFileOnDisk.data = <<>>
    /\ (MistypedField /\ ~BeforeReadAppOptions /\ pc # "returned") =>
           /\ pc = "terminated"
           /\ thrown \in {"TypeMismatch:" \o key : key \in RecognizedKeys}

C5_Witness ==
    /\ optsFileContents.useCompileMacro = JStr("yes")
    /\ pc = "terminated"
    /\ thrown = "TypeMismatch:useCompileMacro"
    /\ outFileOnDisk = [touched |-> TRUE, data |-> <<>>]

(* main returned 0 after printing msg, having parsed and produced nothing. *)
CleanExit(msg) ==
    /\ pc = "returned"
    /\ exitStatus = "0"
    /\ stdout = <<msg>>
    /\ thrown = ""
    /\ opts = DefaultOptions
    /\ j = Unparsed
    /\ output = <<>>
    /\ outFileOnDisk.data = <<>>

\* C6: with fewer than 3 positional arguments, or when the options, the input
\* or the output file cannot be opened (checked in that order), main prints a
\* message and returns 0 without parsing or writing; no file after the one
\* that failed is opened, so the output file is not created or truncated
\* unless both input files were opened.
C6_CleanExitOnUsageOrOpenFailure ==
    /\ (pc # "main" /\ argc < 4) =>
           /\ CleanExit("Usage")
           /\ ~optsFile /\ ~inFile /\ ~outFile /\ ~outFileOnDisk.touched
    /\ (pc \notin {"main", "openOptsFile"} /\ argc >= 4 /\ ~optsFile) =>
           /\ CleanExit("Error: options file")
           /\ ~inFile /\ ~outFile /\ ~outFileOnDisk.touched
    /\ (pc \notin {"main", "openOptsFile", "openInFile"} /\ optsFile /\ ~inFile) =>
           /\ CleanExit("Error: input file")
           /\ ~outFile /\ ~outFileOnDisk.touched
    /\ (pc \notin {"main", "openOptsFile", "openInFile", "openOutFile"}
            /\ optsFile /\ inFile /\ ~outFile) =>
           /\ CleanExit("Error: output file")
           /\ ~outFileOnDisk.touched
    /\ outFileOnDisk.touched => (optsFile /\ inFile /\ outFile)

C6_Witness ==
    /\ pc = "returned"
    /\ argc = 4
    /\ optsFile
    /\ ~inFile
    /\ stdout = <<"Error: input file">>
    /\ ~outFileOnDisk.touched

KindRank(kind) ==
    CASE kind = "pragma once" -> 1
      [] kind = "include" -> 2
      [] kind = "blank lines" -> 3
      [] kind = "namespace open" -> 4
      [] kind = "ChatMessageBase" -> 5
      [] kind = "block" -> 6
      [] kind = "namespace close" -> 7

OfKind(tokens, kind) == SelectSeq(tokens, LAMBDA tk : tk.kind = kind)

(* usePragmaOnce as the options file sets it: true when the key is absent. *)
PragmaRequested ==
    optsFileContents.usePragmaOnce.t = "absent" \/ optsFileContents.usePragmaOnce.b

\* C8: the returned text is, in this order: the #pragma once line iff
\* usePragmaOnce is true or unset; the pch include iff pch is non-empty; one
\* include per headerFiles entry in input order; the two blank lines; the
\* namespace opening iff namespace is non-empty; the ChatMessageBase
\* declaration, once; the message blocks in order; the namespace closing iff
\* namespace is non-empty.  Nothing is out of this order or repeated.
C8_AssemblyOrder ==
    ParseReturned =>
        /\ \A i \in 1..Len(output) : \A k \in (i+1)..Len(output) :
               KindRank(output[i].kind) <= KindRank(output[k].kind)
        /\ Len(OfKind(output, "pragma once")) = IF PragmaRequested THEN 1 ELSE 0
        /\ LET inc == OfKind(output, "include")
               expected == (IF opts.pch # "" THEN <<opts.pch>> ELSE <<>>)
                           \o opts.headerFiles
           IN  /\ Len(inc) = Len(expected)
               /\ \A i \in 1..Len(inc) : inc[i].text = expected[i]
        /\ Len(OfKind(output, "blank lines")) = 1
        /\ LET open == OfKind(output, "namespace open")
           IN  IF opts.ns # ""
               THEN Len(open) = 1 /\ open[1].text = opts.ns
               ELSE open = <<>>
        /\ Len(OfKind(output, "ChatMessageBase")) = 1
        /\ LET blocks == BlocksOf(output)
           IN  /\ Len(blocks) = Len(chatContent)
               /\ \A i \in 1..Len(blocks) : blocks[i].block = chatContent[i]
        /\ Len(OfKind(output, "namespace close")) = IF opts.ns # "" THEN 1 ELSE 0
        /\ pc = "returned" => outFileOnDisk.data = output

C8_Witness ==
    /\ pc = "returned"
    /\ ~PragmaRequested
    /\ opts.pch = "PCH"
    /\ opts.headerFiles = <<"b.h", "a.h">>
    /\ opts.ns = "chat_txt"
    /\ Len(chatContent) = 2
    /\ Len(outFileOnDisk.data) = 9

=============================================================================
